---- MODULE Spec2Model ----
(***************************************************************************)
(* The authentication gate and the signed proxy of api/PclusterApiHandler. *)
(* One inbound HTTP request is handled at a time (section 5: requests are   *)
(* independent, the configuration is read-only): it is received, passes     *)
(* the decorator installed on its route, and is then served by the route's  *)
(* handler, which for the proxy resource calls the backend.                 *)
(***************************************************************************)
EXTENDS Integers, Sequences, FiniteSets, TLC

VARIABLES
  env,       \* the process environment read by os.getenv
  pc,        \* "idle" | "wrapper" | "handler" | "done"
  request,   \* flask.request of the request being handled
  gates,     \* the calls of authenticate made for this request, in order
  outbound,  \* the call made to the backend for this request, if any
  backend,   \* the backend's answer to that call
  response   \* what is returned to the caller

vars == <<env, pc, request, gates, outbound, backend, response>>

(***************************** bounds **************************************)
\* Timestamps range over 0..MaxTime; the clock reads 1..MaxTime-1.
MaxTime == 2
\* At most MaxArgs query parameters on a request.
MaxArgs == 2

(***************************** values **************************************)
Unset == "<unset>"
CognitoGroups == {"user", "admin"}
RequiredGroups == {"guest", "user", "admin"}
Methods == {"GET", "POST", "PUT", "PATCH", "DELETE"}
GROUPS_KEY == "cognito:groups"

\* dict.get(key, default)
DictGet(d, key, default) == IF key \in DOMAIN d THEN d[key] ELSE default

\* A JSON object is a function from member names to strings.
EmptyObj == [k \in {} |-> ""]
\* A Python value that is either None or a JSON object.
PyNone == [isNone |-> TRUE, val |-> EmptyObj]
PyObj(o) == [isNone |-> FALSE, val |-> o]
\* Python truthiness of such a value: None and {} are falsy.
Truthy(v) == ~v.isNone /\ DOMAIN v.val # {}

\* json.loads on the texts that occur: the compact and the spaced spelling of
\* an object parse to the same object, anything else does not parse.
JsonLoads(text) ==
  CASE text = "{}" -> [ok |-> TRUE, val |-> EmptyObj]
    [] text \in {"{\"k\":\"v\"}", "{\"k\": \"v\"}"} -> [ok |-> TRUE, val |-> [k |-> "v"]]
    [] text \in {"{\"message\":\"m\"}", "{\"message\": \"m\"}"} ->
         [ok |-> TRUE, val |-> [message |-> "m"]]
    [] OTHER -> [ok |-> FALSE, val |-> EmptyObj]

\* json.dumps with the default separators (", " and ": ").
JsonDumps(o) ==
  CASE o = EmptyObj -> "{}"
    [] o = [k |-> "v"] -> "{\"k\": \"v\"}"
    [] o = [message |-> "m"] -> "{\"message\": \"m\"}"

(***************************** configuration *******************************)
Envs == [AWS_LAMBDA_FUNCTION_NAME : {Unset, "pcluster-manager"},
         ENABLE_AUTH : {Unset, "false", "true"}]

running_local == env.AWS_LAMBDA_FUNCTION_NAME \in {Unset, ""}

disable_auth == env.ENABLE_AUTH = "false"

(***************************** credentials *********************************)
\* The decoded content of a token: exp, and cognito:groups when present.
ClaimsOf(exp, hasGroups, groups) ==
  IF hasGroups THEN ("exp" :> exp) @@ (GROUPS_KEY :> groups) ELSE ("exp" :> exp)

AllClaims ==
  {ClaimsOf(e, TRUE, g) : e \in 0..MaxTime, g \in SUBSET CognitoGroups}
    \cup {ClaimsOf(e, FALSE, {}) : e \in 0..MaxTime}

\* The accessToken cookie: absent, the empty string, a string that is not a
\* JWT, or a JWT with a good or a tampered signature over its claims.
NoCookie == [form |-> "absent", sig |-> "none", claims |-> ClaimsOf(0, FALSE, {})]
EmptyCookie == [form |-> "empty", sig |-> "none", claims |-> ClaimsOf(0, FALSE, {})]
MalformedToken == [form |-> "malformed", sig |-> "none", claims |-> ClaimsOf(0, FALSE, {})]
Jwt(sig, claims) == [form |-> "jwt", sig |-> sig, claims |-> claims]

Cookies ==
  {NoCookie, EmptyCookie, MalformedToken}
    \cup {Jwt(s, c) : s \in {"good", "tampered"}, c \in AllClaims}

\* `not access_token`: a missing cookie is None, an empty one is "".
CookiePresent(cookie) == cookie.form \notin {"absent", "empty"}

NotDecoded == [ok |-> FALSE, exc |-> "not called", claims |-> ClaimsOf(0, FALSE, {})]
Raised(exc) == [ok |-> FALSE, exc |-> exc, claims |-> ClaimsOf(0, FALSE, {})]

\* jwt.decode: the token is parsed, its signature verified against the key
\* set, and then its exp claim compared with the clock.
jwt_decode(token, now) ==
  IF token.form # "jwt" THEN Raised("JWTError")
  ELSE IF token.sig # "good" THEN Raised("JWSSignatureError")
  ELSE IF token.claims["exp"] < now THEN Raised("ExpiredSignatureError")
  ELSE [ok |-> TRUE, exc |-> "", claims |-> token.claims]

(***************************** gate ****************************************)
\* What authenticate returns: None, a response object, or an exception.
None == [kind |-> "None", status |-> 0, location |-> "", clearCookie |-> FALSE]

auth_redirect ==
  [kind |-> "redirect", status |-> 302, location |-> "AUTH_PATH/login", clearCookie |-> FALSE]

logout ==
  [kind |-> "redirect", status |-> 302, location |-> "/login", clearCookie |-> TRUE]

Exception(exc) == [kind |-> "exception", status |-> 500, location |-> exc, clearCookie |-> FALSE]

\* authenticate with one branch changed, as a slip in it would.
AuthenticateWith(group, req, onExpired, onBadSignature, skipGroups, groupOk(_)) ==
  IF running_local THEN [response |-> None, decoded |-> NotDecoded]
  ELSE
    LET access_token == req.cookies
        decoded == jwt_decode(access_token, req.now)
    IN IF ~CookiePresent(access_token)
         THEN [response |-> auth_redirect, decoded |-> NotDecoded]
       ELSE IF ~decoded.ok
         THEN [response |-> CASE decoded.exc = "ExpiredSignatureError" -> onExpired
                              [] decoded.exc = "JWSSignatureError" -> onBadSignature
                              [] OTHER -> Exception(decoded.exc),
               decoded |-> decoded]
       ELSE IF ~skipGroups /\ ~groupOk(DictGet(decoded.claims, GROUPS_KEY, {}))
         THEN [response |-> auth_redirect, decoded |-> decoded]
       ELSE [response |-> None, decoded |-> decoded]

\* ... an expired token is let through.
authenticate_expired_passes(group, req) ==
  LET Ok(groups) == group = "guest" \/ group \in groups
  IN AuthenticateWith(group, req, None, logout, disable_auth, Ok)

\* ... a tampered token is redirected like an expired one.
authenticate_tampered_redirect(group, req) ==
  LET Ok(groups) == group = "guest" \/ group \in groups
  IN AuthenticateWith(group, req, auth_redirect, auth_redirect, disable_auth, Ok)

\* ... the group check ignores the authorization-disabled flag.
authenticate_flag_ignored(group, req) ==
  LET Ok(groups) == group = "guest" \/ group \in groups
  IN AuthenticateWith(group, req, auth_redirect, logout, FALSE, Ok)

\* ... "guest" is looked up in the groups like any other group.
authenticate_guest_checked(group, req) ==
  LET Ok(groups) == group \in groups
  IN AuthenticateWith(group, req, auth_redirect, logout, disable_auth, Ok)

\* ... membership of "admin" counts for every required group.
authenticate_admin_implies(group, req) ==
  LET Ok(groups) == group = "guest" \/ group \in groups \/ "admin" \in groups
  IN AuthenticateWith(group, req, auth_redirect, logout, disable_auth, Ok)

authenticate(group, req) ==
  IF running_local THEN [response |-> None, decoded |-> NotDecoded]
  ELSE
    LET access_token == req.cookies
        decoded == jwt_decode(access_token, req.now)
    IN IF ~CookiePresent(access_token)
         THEN [response |-> auth_redirect, decoded |-> NotDecoded]
       ELSE IF ~decoded.ok
         THEN [response |-> CASE decoded.exc = "ExpiredSignatureError" -> auth_redirect
                              [] decoded.exc = "JWSSignatureError" -> logout
                              [] OTHER -> Exception(decoded.exc),
               decoded |-> decoded]
       ELSE IF ~disable_auth /\ group # "guest"
                 /\ group \notin DictGet(decoded.claims, GROUPS_KEY, {})
         THEN [response |-> auth_redirect, decoded |-> decoded]
       ELSE [response |-> None, decoded |-> decoded]

\* One entry of the gate log.
GateEntry(site, group, result) ==
  [site |-> site, group |-> group, response |-> result.response, decoded |-> result.decoded]

(***************************** requests ************************************)
\* request.args: the query parameters in the order given, keys distinct.
ArgKeys == {"path", "region", "dryrun"}
ArgValue(k) ==
  CASE k = "path" -> "/v3/clusters/foo" [] k = "region" -> "us-east-1" [] OTHER -> "true"

RECURSIVE ArgLists(_)
ArgLists(n) ==
  IF n = 0 THEN {<<>>}
  ELSE LET shorter == ArgLists(n - 1)
       IN shorter \cup
          {Append(s, <<k, ArgValue(k)>>) :
             s \in {t \in shorter : Len(t) = n - 1},
             k \in ArgKeys} 

ArgNames(args) == {args[i][1] : i \in DOMAIN args}
DistinctKeys(args) == Cardinality(ArgNames(args)) = Len(args)
AllArgs == {a \in ArgLists(MaxArgs) : DistinctKeys(a)}

\* request.args.get(key)
ArgsGet(args, key) ==
  IF key \in ArgNames(args)
    THEN LET i == CHOOSE j \in DOMAIN args : args[j][1] = key IN args[i][2]
    ELSE Unset

\* dict.pop(key) on an insertion-ordered dict that holds the key.
DictPop(args, key) == LET Keep(p) == p[1] # key IN SelectSeq(args, Keep)

\* request.headers, restricted to the two names the handlers read.
AllHeaders ==
  { h \in UNION {[D -> {"application/json", "text/plain"}] :
                   D \in SUBSET {"Content-Type", "ContentType"}} :
      "ContentType" \in DOMAIN h => h["ContentType"] = "application/json" }

\* The bytes of the request body.
AllData == {"", "{}", "{\"k\":\"v\"}"}

\* Routes: the proxy resource, or an endpoint that a caller of this module
\* wraps with authenticated(group, redirect).
ProxyRoute == [kind |-> "proxy", group |-> "user", redirect |-> FALSE]
PageRoutes == [kind : {"page"}, group : RequiredGroups, redirect : BOOLEAN]

Times == 1..(MaxTime - 1)

DefaultArgs == <<<<"path", ArgValue("path")>>, <<"region", ArgValue("region")>>>>
JsonHeaders == [h \in {"Content-Type"} |-> "application/json"]

\* Every credential on every route, with one representative payload.
GateRequests ==
  [route : {ProxyRoute}, method : Methods, cookies : Cookies, now : Times,
   args : {DefaultArgs}, headers : {JsonHeaders}, data : {"{\"k\":\"v\"}"}]
  \cup
  [route : PageRoutes, method : {"GET"}, cookies : Cookies, now : Times,
   args : {<<>>}, headers : {[h \in {} |-> ""]}, data : {""}]

\* The payloads on the proxy route, with representative credentials:
ProxyCookies ==
  {Jwt("good", ClaimsOf(MaxTime, TRUE, {"user"})),
   Jwt("good", ClaimsOf(MaxTime, TRUE, {"user", "admin"}))}

\* ... every query-parameter list with one representative body,
ArgRequests ==
  [route : {ProxyRoute}, method : Methods, cookies : ProxyCookies, now : Times,
   args : AllArgs, headers : {JsonHeaders}, data : {"{\"k\":\"v\"}"}]

\* ... and every body and header combination with and without "path".
BodyRequests ==
  [route : {ProxyRoute}, method : Methods, cookies : ProxyCookies, now : Times,
   args : {DefaultArgs, <<>>}, headers : AllHeaders, data : AllData]

ProxyRequests == ArgRequests \cup BodyRequests

Requests == GateRequests \cup ProxyRequests

NoRequest ==
  [route |-> ProxyRoute, method |-> "none", cookies |-> NoCookie, now |-> 1,
   args |-> <<>>, headers |-> [h \in {} |-> ""], data |-> ""]

\* request.json: the parsed body when the content type is JSON.  Otherwise
\* None or 415 Unsupported Media Type, depending on the Flask release.
request_json(req) ==
  IF DictGet(req.headers, "Content-Type", Unset) = "application/json"
    THEN LET parsed == JsonLoads(req.data)
         IN IF parsed.ok
              THEN {[raised |-> FALSE, status |-> 0, value |-> PyObj(parsed.val)]}
              ELSE {[raised |-> TRUE, status |-> 400, value |-> PyNone]}
    ELSE {[raised |-> FALSE, status |-> 0, value |-> PyNone],
          [raised |-> TRUE, status |-> 415, value |-> PyNone]}

NoBody == [raised |-> FALSE, status |-> 0, value |-> PyNone]

(***************************** backend *************************************)
BackendStatuses == {200, 404, 500}
BackendTexts == {"{\"message\":\"m\"}", "{}", "<html>Bad Gateway</html>"}
BackendResponses == [status_code : BackendStatuses, text : BackendTexts]

NoBackend == [status_code |-> 0, text |-> ""]
NoCall ==
  [method |-> "none", host |-> "", path |-> "", params |-> <<>>,
   data |-> [isNone |-> TRUE, text |-> ""], contentType |-> Unset]

API_BASE_URL == "https://id.execute-api.us-east-1.amazonaws.com"

\* The call sigv4_request signs and sends.
sigv4_request(method, host, path, params, body) ==
  [method |-> method, host |-> host, path |-> path,
   params |-> [i \in DOMAIN params |-> <<params[i][1], params[i][2]>>],
   data |-> IF Truthy(body) THEN [isNone |-> FALSE, text |-> JsonDumps(body.val)]
            ELSE [isNone |-> TRUE, text |-> ""],
   contentType |-> IF Truthy(body) THEN "application/json" ELSE Unset]

\* _get_params popping "path" from request.args itself, not from a copy.
_get_params_in_place(args) ==
  [raised |-> "path" \notin ArgNames(args),
   params |-> DictPop(args, "path"),
   request_args |-> DictPop(args, "path")]

\* _get_params: a copy of request.args without "path"; KeyError without it.
\* request_args is request.args as the call leaves it.
_get_params(args) ==
  [raised |-> "path" \notin ArgNames(args),
   params |-> DictPop(args, "path"),
   request_args |-> args]

(***************************** responses ***********************************)
Reply(kind, status, body, location, clearCookie) ==
  [kind |-> kind, status |-> status, body |-> body, location |-> location,
   clearCookie |-> clearCookie]

NoResponse == Reply("none", 0, PyNone, "", FALSE)
\* flask.abort(status), and any other werkzeug HTTPException.
abort(status) == Reply("abort", status, PyNone, "", FALSE)
\* An exception nobody handles: Flask answers 500.
Unhandled(exc) == Reply("exception", 500, PyNone, exc, FALSE)
\* A response object returned by authenticate and passed on as is.
Returned(r) == Reply(r.kind, r.status, PyNone, r.location, r.clearCookie)

\* The outcome of a handler: the backend call, its answer, the reply and
\* request.args afterwards.
Outcome(call, answer, reply, args) ==
  [outbound |-> call, backend |-> answer, response |-> reply, args |-> args]

\* Relay returning the body alone, which Flask answers with status 200.
Relay_body_only(resp) ==
  LET parsed == JsonLoads(resp.text)
  IN IF parsed.ok THEN Reply("json", 200, PyObj(parsed.val), "", FALSE)
     ELSE Unhandled("JSONDecodeError")

\* `return resp.json(), resp.status_code`
Relay(resp) ==
  LET parsed == JsonLoads(resp.text)
  IN IF parsed.ok THEN Reply("json", resp.status_code, PyObj(parsed.val), "", FALSE)
     ELSE Unhandled("JSONDecodeError")

\* sigv4_request(method, API_BASE_URL, request.args.get("path"),
\*               _get_params(request), body=...) and the return after it.
\* json is the outcome of evaluating the body argument, answer what the
\* backend replies.
Forward(method, req, json, answer) ==
  LET path == ArgsGet(req.args, "path")
      got == _get_params(req.args)
  IN IF got.raised THEN Outcome(NoCall, NoBackend, Unhandled("KeyError"), got.request_args)
     ELSE IF json.raised
       THEN Outcome(NoCall, NoBackend, abort(json.status), got.request_args)
     ELSE Outcome(sigv4_request(method, API_BASE_URL, path, got.params, json.value),
                  answer, Relay(answer), got.request_args)

(***************************** call sites **********************************)
\* _wrapper_authenticated of authenticated(group, redirect): the gate entry
\* it logs, whether func is called, and the response when it is not.
authenticated(group, redirect, req) ==
  LET auth == authenticate(group, req)
      auth_response == auth.response
  IN [entry |-> GateEntry("wrapper", group, auth),
      proceed |-> auth_response = None,
      response |-> IF auth_response.kind = "exception" THEN Unhandled(auth_response.location)
                   ELSE IF auth_response # None
                     THEN (IF redirect THEN Returned(auth_response) ELSE abort(401))
                   ELSE NoResponse]

\* The decorator of the proxy resource.
method_decorators == [group |-> "user", redirect |-> FALSE]

\* `auth_response = authenticate("admin"); if auth_response: abort(401)`,
\* then the rest of the handler.
AdminOnly(req, rest) ==
  LET auth == authenticate("admin", req)
      auth_response == auth.response
  IN [entries |-> <<GateEntry("handler", "admin", auth)>>,
      outcome |-> IF auth_response.kind = "exception"
                    THEN Outcome(NoCall, NoBackend, Unhandled(auth_response.location), req.args)
                  ELSE IF auth_response # None
                    THEN Outcome(NoCall, NoBackend, abort(401), req.args)
                  ELSE rest]

get(req, answer) ==
  [entries |-> <<>>, outcome |-> Forward("GET", req, NoBody, answer)]

\* post without its own "admin" check, relying on the class decorator alone.
post_unchecked(req, json, answer) ==
  [entries |-> <<>>, outcome |-> Forward("POST", req, json, answer)]

post(req, json, answer) == AdminOnly(req, Forward("POST", req, json, answer))

put(req, json, answer) == AdminOnly(req, Forward("PUT", req, json, answer))

patch(req, json, answer) == AdminOnly(req, Forward("PATCH", req, json, answer))

\* delete_body parsing the body whatever the headers say.
delete_body_forced(req, json) ==
  LET parsed == JsonLoads(req.data)
  IN IF parsed.ok THEN [raised |-> FALSE, status |-> 0, value |-> PyObj(parsed.val)]
     ELSE [raised |-> TRUE, status |-> 400, value |-> PyNone]

\* The body delete passes on: request.json only under its header test.
delete_body(req, json) ==
  IF "Content-Type" \in DOMAIN req.headers
       /\ DictGet(req.headers, "ContentType", Unset) = "application/json"
    THEN json
    ELSE NoBody

delete(req, json, answer) ==
  LET body == delete_body(req, json)
  IN AdminOnly(req,
       IF body.raised THEN Outcome(NoCall, NoBackend, abort(body.status), req.args)
       ELSE Forward("DELETE", req, body, answer))

(***************************** actions *************************************)
Init ==
  /\ env \in Envs
  /\ pc = "idle"
  /\ request = NoRequest
  /\ gates = <<>>
  /\ outbound = NoCall
  /\ backend = NoBackend
  /\ response = NoResponse

\* A request arrives.
Receive(r) ==
  /\ pc = "idle"
  /\ pc' = "wrapper"
  /\ request' = r
  /\ gates' = <<>>
  /\ outbound' = NoCall
  /\ backend' = NoBackend
  /\ response' = NoResponse
  /\ UNCHANGED env

\* The decorator of the route runs.
Wrapper ==
  /\ pc = "wrapper"
  /\ LET deco == IF request.route.kind = "proxy" THEN method_decorators ELSE request.route
         w == authenticated(deco.group, deco.redirect, request)
     IN /\ gates' = Append(gates, w.entry)
        /\ response' = w.response
        /\ pc' = IF w.proceed THEN "handler" ELSE "done"
  /\ UNCHANGED <<env, request, outbound, backend>>

Serve(result) ==
  /\ pc' = "done"
  /\ gates' = gates \o result.entries
  /\ outbound' = result.outcome.outbound
  /\ backend' = result.outcome.backend
  /\ response' = result.outcome.response
  /\ request' = [request EXCEPT !.args = result.outcome.args]
  /\ UNCHANGED env

AtHandler(method) ==
  pc = "handler" /\ request.route.kind = "proxy" /\ request.method = method

HandleGet ==
  /\ AtHandler("GET")
  /\ \E answer \in BackendResponses : Serve(get(request, answer))

HandlePost ==
  /\ AtHandler("POST")
  /\ \E json \in request_json(request), answer \in BackendResponses :
       Serve(post(request, json, answer))

HandlePut ==
  /\ AtHandler("PUT")
  /\ \E json \in request_json(request), answer \in BackendResponses :
       Serve(put(request, json, answer))

HandlePatch ==
  /\ AtHandler("PATCH")
  /\ \E json \in request_json(request), answer \in BackendResponses :
       Serve(patch(request, json, answer))

HandleDelete ==
  /\ AtHandler("DELETE")
  /\ \E json \in request_json(request), answer \in BackendResponses :
       Serve(delete(request, json, answer))

\* An endpoint wrapped by authenticated(...) outside the proxy resource.
HandlePage ==
  /\ pc = "handler" /\ request.route.kind = "page"
  /\ pc' = "done"
  /\ response' = Reply("page", 200, PyNone, "", FALSE)
  /\ UNCHANGED <<env, request, gates, outbound, backend>>

\* The response has been sent and the request context is popped.
Teardown ==
  /\ pc = "done"
  /\ pc' = "idle"
  /\ request' = NoRequest
  /\ gates' = <<>>
  /\ outbound' = NoCall
  /\ backend' = NoBackend
  /\ response' = NoResponse
  /\ UNCHANGED env

Next ==
  \/ \E r \in Requests : Receive(r)
  \/ Wrapper
  \/ HandleGet
  \/ HandlePost
  \/ HandlePut
  \/ HandlePatch
  \/ HandleDelete
  \/ HandlePage
  \/ Teardown

Spec == Init /\ [][Next]_vars

(***************************** properties **********************************)
Dispatched == outbound # NoCall
Answered == pc = "done"
OnProxy == request.route.kind = "proxy" /\ request.method \in Methods
\* The group the proxy asks of each verb.
Required(method) == IF method = "GET" THEN "user" ELSE "admin"
GroupsOf(claims) == DictGet(claims, GROUPS_KEY, {})
\* The cookie is a JWT whose exp lies before the clock of the request.
ExpiredCookie == request.cookies.form = "jwt" /\ request.cookies.claims["exp"] < request.now
TamperedCookie == request.cookies.form = "jwt" /\ request.cookies.sig = "tampered"
VerifiedFor(group) ==
  \E i \in DOMAIN gates :
    /\ gates[i].group = group
    /\ gates[i].response = None
    /\ gates[i].decoded.ok
    /\ group \in GroupsOf(gates[i].decoded.claims)

\* C1 as stated: a backend call is made only after the accessToken was
\* verified with the verb's group among its groups, or with the
\* authorization-disabled flag set.
C1_Original == Dispatched => (VerifiedFor(Required(request.method)) \/ disable_auth)

\* C1 amended: a backend call is made only after the accessToken was verified
\* with the verb's group among its groups, or with the authorization-disabled
\* flag set (the token still verified), or when running locally.
C1_Amended ==
  Dispatched =>
    \/ VerifiedFor(Required(request.method))
    \/ disable_auth /\ \A i \in DOMAIN gates : gates[i].decoded.ok
    \/ running_local

C1_Witness ==
  /\ Dispatched /\ ~running_local /\ ~disable_auth
  /\ request.method = "DELETE" /\ VerifiedFor("admin")

\* C2: with authorization not disabled, a gate check on verified claims lets
\* the request through iff the required group is "guest" or is in the claims'
\* group list, a missing list counting as empty.
C2_GroupRule ==
  \A i \in DOMAIN gates :
    (~disable_auth /\ gates[i].decoded.ok) =>
      (gates[i].response = None <=>
         (gates[i].group = "guest"
            \/ gates[i].group \in GroupsOf(gates[i].decoded.claims)))

C2_Witness ==
  \E i \in DOMAIN gates :
    /\ ~disable_auth /\ gates[i].decoded.ok
    /\ gates[i].group = "admin"
    /\ GROUPS_KEY \notin DOMAIN gates[i].decoded.claims
    /\ gates[i].response = auth_redirect

\* C3 as stated: the proxy calls the backend only after the gate passed for
\* the verb's level, and whenever a gate check of a proxy request does not
\* pass, the caller gets a 401 and the backend is not called.
C3_Original ==
  (Answered /\ OnProxy) =>
    /\ Dispatched =>
         \E i \in DOMAIN gates :
           gates[i].group = Required(request.method) /\ gates[i].response = None
    /\ (\E i \in DOMAIN gates : gates[i].response # None) =>
         (response = abort(401) /\ ~Dispatched)

\* C4 as stated: a credential whose exp is in the past makes every gate check
\* yield the redirect to the login page.
C4_Original ==
  \A i \in DOMAIN gates : ExpiredCookie => gates[i].response = auth_redirect

\* C4 amended: when not running locally, a credential whose exp is in the
\* past never passes the gate, whatever the required group, its groups and
\* the authorization-disabled flag: the gate yields the redirect to the login
\* page when the signature verifies and the logout response when it does not.
C4_Amended ==
  \A i \in DOMAIN gates :
    (ExpiredCookie /\ ~running_local) =>
      gates[i].response = IF request.cookies.sig = "good" THEN auth_redirect ELSE logout

C4_Witness ==
  \E i \in DOMAIN gates :
    /\ ExpiredCookie /\ ~running_local /\ request.cookies.sig = "good"
    /\ gates[i].group = "guest" /\ disable_auth
    /\ gates[i].response = auth_redirect

\* C5 as stated: a credential whose signature fails verification gets the
\* logout response (cookie cleared, redirect to /login) at every call site.
C5_Original ==
  (Answered /\ TamperedCookie) => response = Returned(logout)

\* C5 amended: when not running locally, authenticate answers a credential
\* whose signature fails verification with the logout response, for every
\* required group; a site wrapped with redirect=True returns it, the proxy's
\* sites answer 401 instead, and the backend is never called.
C5_Amended ==
  (TamperedCookie /\ ~running_local) =>
    /\ \A i \in DOMAIN gates : gates[i].response = logout
    /\ Answered =>
         /\ response = IF request.route.redirect THEN Returned(logout) ELSE abort(401)
         /\ ~Dispatched

C5_Witness ==
  /\ Answered /\ TamperedCookie /\ ~running_local
  /\ request.route.kind = "page" /\ request.route.redirect
  /\ response.clearCookie /\ response.location = "/login"

\* C6 as stated: with the authorization-disabled flag set every gate check
\* passes, with any credential or none.
C6_Original ==
  disable_auth => \A i \in DOMAIN gates : gates[i].response = None

\* C6 amended: with the authorization-disabled flag set the group check is
\* skipped: every credential that verifies passes for every required group;
\* when not running locally a missing credential is still redirected to the
\* login page, as is an expired one, and a tampered one is logged out.
C6_Amended ==
  disable_auth =>
    \A i \in DOMAIN gates :
      /\ gates[i].decoded.ok => gates[i].response = None
      /\ (~running_local /\ ~CookiePresent(request.cookies)) =>
           gates[i].response = auth_redirect
      /\ (~running_local /\ TamperedCookie) => gates[i].response = logout
      /\ (~running_local /\ ExpiredCookie /\ ~TamperedCookie) =>
           gates[i].response = auth_redirect

C6_Witness ==
  \E i \in DOMAIN gates :
    /\ disable_auth /\ gates[i].decoded.ok
    /\ gates[i].group = "admin" /\ GroupsOf(gates[i].decoded.claims) = {}
    /\ gates[i].response = None

\* C7 as stated: a gate check for "guest" passes whatever the cookie.
C7_Original ==
  \A i \in DOMAIN gates : gates[i].group = "guest" => gates[i].response = None

\* C7 amended: a gate check for "guest" passes for every credential that
\* verifies, whatever its groups; when not running locally the credential is
\* still checked: no cookie or an expired one is redirected to the login
\* page and a tampered one is logged out.
C7_Amended ==
  \A i \in DOMAIN gates :
    gates[i].group = "guest" =>
      /\ gates[i].decoded.ok => gates[i].response = None
      /\ (~running_local /\ ~CookiePresent(request.cookies)) =>
           gates[i].response = auth_redirect
      /\ (~running_local /\ TamperedCookie) => gates[i].response = logout
      /\ (~running_local /\ ExpiredCookie /\ ~TamperedCookie) =>
           gates[i].response = auth_redirect

C7_Witness ==
  \E i \in DOMAIN gates :
    /\ gates[i].group = "guest" /\ ~disable_auth /\ gates[i].decoded.ok
    /\ GroupsOf(gates[i].decoded.claims) = {}
    /\ gates[i].response = None

\* C8: when a handler forwards a request, the parameters it sends are the
\* inbound ones without "path", in the same order, the backend path is the
\* value of "path", and request.args is as it was.
C8_PathStripped ==
  [][(pc = "handler" /\ outbound' # NoCall) =>
       /\ request'.args = request.args
       /\ "path" \in ArgNames(request.args)
       /\ outbound'.path = ArgsGet(request.args, "path")
       /\ ArgNames(outbound'.params) = ArgNames(request.args) \ {"path"}
       /\ \A i, j \in DOMAIN request.args :
            (i < j /\ request.args[i][1] # "path" /\ request.args[j][1] # "path") =>
              \E m, n \in DOMAIN outbound'.params :
                /\ m < n
                /\ outbound'.params[m] = request.args[i]
                /\ outbound'.params[n] = request.args[j]
       /\ \A m \in DOMAIN outbound'.params :
            \E i \in DOMAIN request.args : outbound'.params[m] = request.args[i]
       /\ Len(outbound'.params) = Len(request.args) - 1]_vars

C8_Witness ==
  /\ Dispatched /\ request.method = "GET"
  /\ request.args = <<<<"path", "/v3/clusters/foo">>, <<"region", "us-east-1">>>>
  /\ outbound.params = <<<<"region", "us-east-1">>>>
  /\ outbound.path = "/v3/clusters/foo"

C10_DeleteNoBody ==
  (Dispatched /\ request.method = "DELETE"
     /\ DictGet(request.headers, "Content-Type", Unset) # "application/json") =>
    (outbound.data.isNone /\ outbound.contentType = Unset)

C10_Witness ==
  /\ Dispatched /\ request.method = "DELETE"
  /\ DictGet(request.headers, "Content-Type", Unset) = "text/plain"
  /\ DictGet(request.headers, "ContentType", Unset) = "application/json"
  /\ request.data = "{\"k\":\"v\"}"
  /\ outbound.data.isNone

\* C11 as stated: no gate check ends in an exception, and a request whose
\* gate check did not pass is answered with a redirect to the login flow or
\* with a 401.
C11_Original ==
  /\ \A i \in DOMAIN gates : gates[i].response.kind # "exception"
  /\ (Answered /\ \E i \in DOMAIN gates : gates[i].response # None) =>
       (response.kind = "redirect" \/ response = abort(401))

\* C12: when not running locally and with authorization enabled, a POST, PUT,
\* PATCH or DELETE on the proxy is checked first by the class decorator for
\* "user" and then, only if that passed, by the handler for "admin"; it is
\* forwarded only after both passed on a verified group list holding "user"
\* and "admin", and a caller with "admin" but without "user" gets a 401 from
\* the first check, the second is not made and the backend is not called.
C12_TwoGates ==
  (~running_local /\ ~disable_auth /\ OnProxy /\ request.method # "GET") =>
    /\ Len(gates) <= 2
    /\ pc \in {"handler", "done"} =>
         (Len(gates) >= 1 /\ gates[1].site = "wrapper" /\ gates[1].group = "user")
    /\ Len(gates) = 2 =>
         /\ gates[1].response = None
         /\ gates[2].site = "handler" /\ gates[2].group = "admin"
    /\ (Answered /\ gates[1].response = None) => Len(gates) = 2
    /\ Dispatched =>
         /\ Len(gates) = 2
         /\ \A i \in DOMAIN gates :
              /\ gates[i].response = None
              /\ gates[i].decoded.ok
              /\ {"user", "admin"} \subseteq GroupsOf(gates[i].decoded.claims)
    /\ (Answered /\ jwt_decode(request.cookies, request.now).ok
          /\ "admin" \in GroupsOf(request.cookies.claims)
          /\ "user" \notin GroupsOf(request.cookies.claims)) =>
         /\ Len(gates) = 1
         /\ gates[1].response = auth_redirect
         /\ response = abort(401)
         /\ ~Dispatched

C12_Witness ==
  /\ Answered /\ ~running_local /\ ~disable_auth /\ OnProxy
  /\ request.method = "DELETE"
  /\ request.cookies.form = "jwt" /\ request.cookies.sig = "good"
  /\ GroupsOf(request.cookies.claims) = {"admin"}
  /\ Len(gates) = 1 /\ gates[1].group = "user"
  /\ response = abort(401) /\ ~Dispatched

====
